---------------------------- MODULE Spec2Model ----------------------------
(***************************************************************************)
(* Model of electron/services/whisper_transcribe.py: a command-line script *)
(* that imports the whisper library, checks the argument count, loads the  *)
(* 'base' model, transcribes the file named by the first argument and      *)
(* prints the text of the result.                                          *)
(*                                                                         *)
(* A behaviour is one run of the process.  The library (the import, the    *)
(* two calls) is the environment: each of its outcomes is a separate       *)
(* action.  Python's sys.argv[i] is argv[i + 1] here (sequences start at   *)
(* 1), so the audio path sys.argv[1] is argv[2].                           *)
(***************************************************************************)
EXTENDS Naturals, Sequences, FiniteSets

VARIABLES
    argv,        \* sys.argv: the program name, then the arguments
    pc,          \* the statement the run is at
    whisper,     \* TRUE once `import whisper` has bound the module
    model,       \* the value of `model`: <<>> unbound, <<label>> once loaded
    result,      \* the value of `result`: <<>> unbound, <<record>> once returned
    stdout,      \* what has been written to standard output
    stderr,      \* what has been written to standard error
    exitStatus,  \* <<>> while running, <<n>> once the process has ended
    calls,       \* the library calls made so far, in order: [fn, arg]
    returned,    \* the library calls that have returned normally, in order
    raised,      \* <<>>, or <<[at, err]>>: the statement that raised, and what
    caught,      \* TRUE once the except clause has caught the exception
    argvRead,    \* the indices of argv the run has read
    fieldsRead   \* the keys of the result record the run has read

vars == <<argv, pc, whisper, model, result, stdout, stderr, exitStatus,
          calls, returned, raised, caught, argvRead, fieldsRead>>

----------------------------------------------------------------------------
(* Bounds of the model. *)

\* At most this many arguments follow the program name.
MaxArgs == 2

----------------------------------------------------------------------------
(* Inputs and the library's possible outcomes. *)

ProgName == "whisper_transcribe.py"

\* Command-line arguments: the empty string is a legal argument.
ArgValues == {"", "a.wav", "b.mp3"}

\* Transcripts the library may return, the empty one and a multi-line one
\* included.
Texts == {"", "hello world", "two\nlines"}

Languages == {"en", "de"}

\* What transcribe may return: whisper's result carries more than the text;
\* a record without a text key is what a non-conforming library would give.
Results ==
    [text : Texts, language : Languages] \cup [language : Languages]

\* Exceptions the library may raise.
ImportErrors == {"ModuleNotFoundError: No module named 'whisper'",
                 "ImportError: cannot import name 'load_model'"}
OtherImportErrors == {"OSError: libtorch.so: cannot open shared object file"}
LoadErrors == {"RuntimeError: checkpoint does not match", "MemoryError"}
TranscribeErrors == {"FileNotFoundError: a.wav",
                     "RuntimeError: unsupported format"}

AllArgv ==
    UNION {{<<ProgName>> \o a : a \in [1..n -> ArgValues]} : n \in 0..MaxArgs}

----------------------------------------------------------------------------
(* The pieces of Python the script uses. *)

\* Variant: print(s, end=''), the newline left out.
printNoEnd(stream, s) == stream \o s

\* print(s, file=stream): the text, then the default end, a newline.
print(stream, s) == stream \o s \o "\n"

\* What the interpreter writes for an exception nobody caught.
Traceback(e) == "Traceback (most recent call last):\n" \o e \o "\n"

MissingMsg == "Whisper not installed. Please run: pip install openai-whisper"
UsageMsg == "Usage: python whisper_transcribe.py <audio_path>"

\* Variant: the label taken from a second argument when there is one.
ModelLabelFromArgv == IF Len(argv) >= 3 THEN argv[3] ELSE "base"

\* The argument of whisper.load_model.
ModelLabel == "base"

\* The status of sys.exit(1) in both guards.
GuardStatus == 1
\* The status the interpreter ends with after an uncaught exception.
UncaughtStatus == 1
\* The status of a script that runs off its end.
SuccessStatus == 0

\* Variant: the comparison off by one, len(sys.argv) < 1.
TooFewArgsOffByOne(a) == Len(a) < 1

\* len(sys.argv) < 2
TooFewArgs(a) == Len(a) < 2

\* Statement `at` raises e and no handler encloses it: the exception leaves
\* the script, the traceback goes to standard error and the process ends.
Propagate(at, e) ==
    /\ raised' = <<[at |-> at, err |-> e]>>
    /\ stderr' = stderr \o Traceback(e)
    /\ exitStatus' = <<UncaughtStatus>>
    /\ pc' = "exited"

----------------------------------------------------------------------------
Init ==
    /\ argv \in AllArgv
    /\ pc = "import"
    /\ whisper = FALSE
    /\ model = <<>>
    /\ result = <<>>
    /\ stdout = ""
    /\ stderr = ""
    /\ exitStatus = <<>>
    /\ calls = <<>>
    /\ returned = <<>>
    /\ raised = <<>>
    /\ caught = FALSE
    /\ argvRead = {}
    /\ fieldsRead = {}

\* import whisper, found.
ImportOk ==
    /\ pc = "import"
    /\ whisper' = TRUE
    /\ pc' = "argcheck"
    /\ UNCHANGED <<argv, model, result, stdout, stderr, exitStatus, calls,
                   returned, raised, caught, argvRead, fieldsRead>>

\* Variant: the handler prints and forgets sys.exit(1).
ImportMissingNoExit ==
    /\ pc = "import"
    /\ \E e \in ImportErrors :
          /\ raised' = <<[at |-> "import", err |-> e]>>
          /\ caught' = TRUE
          /\ stderr' = print(stderr, MissingMsg)
          /\ pc' = "argcheck"
    /\ UNCHANGED <<argv, whisper, model, result, stdout, exitStatus, calls,
                   returned, argvRead, fieldsRead>>

\* import whisper raises ImportError: the handler prints and exits.
ImportMissing ==
    /\ pc = "import"
    /\ \E e \in ImportErrors :
          /\ raised' = <<[at |-> "import", err |-> e]>>
          /\ caught' = TRUE
          /\ stderr' = print(stderr, MissingMsg)
          /\ exitStatus' = <<GuardStatus>>
          /\ pc' = "exited"
    /\ UNCHANGED <<argv, whisper, model, result, stdout, calls, returned,
                   argvRead, fieldsRead>>

\* import whisper raises something that is no ImportError: not handled.
ImportRaises ==
    /\ pc = "import"
    /\ \E e \in OtherImportErrors : Propagate("import", e)
    /\ UNCHANGED <<argv, whisper, model, result, stdout, calls, returned,
                   caught, argvRead, fieldsRead>>

\* Variant: the usage error exits with status 2.
ArgCheckFailsStatus2 ==
    /\ pc = "argcheck"
    /\ TooFewArgs(argv)
    /\ stderr' = print(stderr, UsageMsg)
    /\ exitStatus' = <<GuardStatus + 1>>
    /\ pc' = "exited"
    /\ UNCHANGED <<argv, whisper, model, result, stdout, calls, returned,
                   raised, caught, argvRead, fieldsRead>>

\* Variant: the usage message printed without file=sys.stderr.
ArgCheckFailsToStdout ==
    /\ pc = "argcheck"
    /\ TooFewArgs(argv)
    /\ stdout' = print(stdout, UsageMsg)
    /\ exitStatus' = <<GuardStatus>>
    /\ pc' = "exited"
    /\ UNCHANGED <<argv, whisper, model, result, stderr, calls, returned,
                   raised, caught, argvRead, fieldsRead>>

\* if len(sys.argv) < 2: print usage, sys.exit(1)
ArgCheckFails ==
    /\ pc = "argcheck"
    /\ TooFewArgs(argv)
    /\ stderr' = print(stderr, UsageMsg)
    /\ exitStatus' = <<GuardStatus>>
    /\ pc' = "exited"
    /\ UNCHANGED <<argv, whisper, model, result, stdout, calls, returned,
                   raised, caught, argvRead, fieldsRead>>

\* Variant: the model-loading statement left out.
ArgCheckPassesSkipLoad ==
    /\ pc = "argcheck"
    /\ ~TooFewArgs(argv)
    /\ pc' = "transcribe"
    /\ UNCHANGED <<argv, whisper, model, result, stdout, stderr, exitStatus,
                   calls, returned, raised, caught, argvRead, fieldsRead>>

ArgCheckPasses ==
    /\ pc = "argcheck"
    /\ ~TooFewArgs(argv)
    /\ pc' = "load"
    /\ UNCHANGED <<argv, whisper, model, result, stdout, stderr, exitStatus,
                   calls, returned, raised, caught, argvRead, fieldsRead>>

\* whisper.load_model('base') is entered.
CallLoadModel ==
    /\ pc = "load"
    /\ calls' = Append(calls, [fn |-> "load_model", arg |-> ModelLabel])
    /\ pc' = "loading"
    /\ UNCHANGED <<argv, whisper, model, result, stdout, stderr, exitStatus,
                   returned, raised, caught, argvRead, fieldsRead>>

\* load_model returns; model = ...
LoadModelReturns ==
    /\ pc = "loading"
    /\ model' = <<calls[Len(calls)].arg>>
    /\ returned' = Append(returned, "load_model")
    /\ pc' = "transcribe"
    /\ UNCHANGED <<argv, whisper, result, stdout, stderr, exitStatus, calls,
                   raised, caught, argvRead, fieldsRead>>

\* Variant: load_model wrapped in try/except: pass.
LoadModelRaisesSwallowed ==
    /\ pc = "loading"
    /\ \E e \in LoadErrors : raised' = <<[at |-> "load_model", err |-> e]>>
    /\ caught' = TRUE
    /\ pc' = "transcribe"
    /\ UNCHANGED <<argv, whisper, model, result, stdout, stderr, exitStatus,
                   calls, returned, argvRead, fieldsRead>>

LoadModelRaises ==
    /\ pc = "loading"
    /\ \E e \in LoadErrors : Propagate("load_model", e)
    /\ UNCHANGED <<argv, whisper, model, result, stdout, calls, returned,
                   caught, argvRead, fieldsRead>>

\* Variant: the last argument passed instead of the first, sys.argv[-1].
CallTranscribeLastArg ==
    /\ pc = "transcribe"
    /\ argvRead' = argvRead \cup {Len(argv)}
    /\ calls' = Append(calls, [fn |-> "transcribe", arg |-> argv[Len(argv)]])
    /\ pc' = "transcribing"
    /\ UNCHANGED <<argv, whisper, model, result, stdout, stderr, exitStatus,
                   returned, raised, caught, fieldsRead>>

\* model.transcribe(sys.argv[1]) is entered; sys.argv[1] of a list that is
\* too short raises IndexError before the call.
CallTranscribe ==
    /\ pc = "transcribe"
    /\ argvRead' = argvRead \cup {2}
    /\ IF Len(argv) < 2
          THEN /\ Propagate("sys.argv[1]", "IndexError: list index out of range")
               /\ UNCHANGED calls
          ELSE /\ calls' = Append(calls, [fn |-> "transcribe", arg |-> argv[2]])
               /\ pc' = "transcribing"
               /\ UNCHANGED <<stderr, exitStatus, raised>>
    /\ UNCHANGED <<argv, whisper, model, result, stdout, returned, caught,
                   fieldsRead>>

\* transcribe returns; result = ...
TranscribeReturns ==
    /\ pc = "transcribing"
    /\ \E r \in Results : result' = <<r>>
    /\ returned' = Append(returned, "transcribe")
    /\ pc' = "print"
    /\ UNCHANGED <<argv, whisper, model, stdout, stderr, exitStatus, calls,
                   raised, caught, argvRead, fieldsRead>>

\* Variant: transcribe wrapped in try/except that prints its own message
\* and exits 1.
TranscribeRaisesCaught ==
    /\ pc = "transcribing"
    /\ \E e \in TranscribeErrors :
          /\ raised' = <<[at |-> "transcribe", err |-> e]>>
          /\ stderr' = print(stderr, "Transcription failed")
    /\ caught' = TRUE
    /\ exitStatus' = <<GuardStatus>>
    /\ pc' = "exited"
    /\ UNCHANGED <<argv, whisper, model, result, stdout, calls, returned,
                   argvRead, fieldsRead>>

TranscribeRaises ==
    /\ pc = "transcribing"
    /\ \E e \in TranscribeErrors : Propagate("transcribe", e)
    /\ UNCHANGED <<argv, whisper, model, result, stdout, calls, returned,
                   caught, argvRead, fieldsRead>>

\* print(result['text']), then the script runs off its end.
PrintText ==
    /\ pc = "print"
    /\ fieldsRead' = fieldsRead \cup {"text"}
    /\ IF "text" \in DOMAIN result[1]
          THEN /\ stdout' = print(stdout, result[1].text)
               /\ exitStatus' = <<SuccessStatus>>
               /\ pc' = "exited"
               /\ UNCHANGED <<stderr, raised>>
          ELSE /\ Propagate("print", "KeyError: 'text'")
               /\ UNCHANGED stdout
    /\ UNCHANGED <<argv, whisper, model, result, calls, returned, caught,
                   argvRead>>

Next ==
    \/ ImportOk
    \/ ImportMissing
    \/ ImportRaises
    \/ ArgCheckFails
    \/ ArgCheckPasses
    \/ CallLoadModel
    \/ LoadModelReturns
    \/ LoadModelRaises
    \/ CallTranscribe
    \/ TranscribeReturns
    \/ TranscribeRaises
    \/ PrintText

Spec == Init /\ [][Next]_vars

----------------------------------------------------------------------------
(* Vocabulary of the properties. *)

Exited == pc = "exited"

Has(seq, x) == \E i \in 1..Len(seq) : seq[i] = x

Invoked(f) == \E i \in 1..Len(calls) : calls[i].fn = f

RaisedAt(at) == raised # <<>> /\ raised[1].at = at

\* The import raised an ImportError: the capability is not installed.
Unavailable == RaisedAt("import") /\ raised[1].err \in ImportErrors

NonZeroExit == Exited /\ exitStatus # <<>> /\ exitStatus # <<0>>

MissingLine ==
    "Whisper not installed. Please run: pip install openai-whisper\n"
UsageLine == "Usage: python whisper_transcribe.py <audio_path>\n"

\* Standard error holds the raised exception itself, as the interpreter
\* reports it, and nothing else.
RawErrorOnStderr ==
    /\ raised # <<>>
    /\ ~caught
    /\ stderr = "Traceback (most recent call last):\n" \o raised[1].err \o "\n"

IsPrefix(s, t) == Len(s) <= Len(t) /\ \A i \in 1..Len(s) : s[i] = t[i]

----------------------------------------------------------------------------
(* C1: a run with the library imported, an audio path given, load_model   *)
(* returned and transcribe returned a record with text t ends with status *)
(* 0 and standard output exactly t and one newline; only the text field   *)
(* of the record is read.                                                 *)
C1_SuccessOutput ==
    (/\ Exited
     /\ whisper
     /\ Len(argv) >= 2
     /\ Has(returned, "load_model")
     /\ result # <<>>
     /\ "text" \in DOMAIN result[1])
    => /\ exitStatus = <<0>>
       /\ stdout = result[1].text \o "\n"
       /\ fieldsRead = {"text"}

C1_Witness ==
    /\ Exited
    /\ result # <<>>
    /\ result[1] = [text |-> "hello world", language |-> "en"]
    /\ stdout = "hello world\n"
    /\ exitStatus = <<0>>

(* C2: a run with the library imported and no argument after the program  *)
(* name ends with a non-zero status, the usage message on standard error  *)
(* and nothing on standard output.                                        *)
C2_MissingArgument ==
    (Exited /\ whisper /\ Len(argv) < 2)
    => /\ NonZeroExit
       /\ stderr = UsageLine
       /\ stdout = ""

C2_Witness ==
    /\ Exited
    /\ whisper
    /\ argv = <<ProgName>>
    /\ stderr = UsageLine

C4_TranscribeErrorPropagates ==
    RaisedAt("transcribe")
    => /\ NonZeroExit
       /\ RawErrorOnStderr
       /\ stdout = ""

C4_Witness ==
    /\ RaisedAt("transcribe")
    /\ raised[1].err = "RuntimeError: unsupported format"
    /\ Invoked("transcribe")
    /\ Exited

(* C5, as stated: status 1 only when the import failed or no argument was *)
(* given, and an exception from load_model or transcribe ends the run     *)
(* with a status that is neither 0 nor 1.                                 *)
C5_AsStated ==
    Exited
    => /\ exitStatus = <<1>>
             => (RaisedAt("import") \/ (whisper /\ Len(argv) < 2))
       /\ (RaisedAt("load_model") \/ RaisedAt("transcribe"))
             => (exitStatus # <<0>> /\ exitStatus # <<1>>)

(* C5, amended: every run ends with status 0 or 1; status 1 is the status *)
(* of both guards and also of every exception that leaves the script, so  *)
(* the status does not tell them apart; standard error does: a guard      *)
(* leaves exactly its message there, an uncaught exception its traceback. *)
C5_ExitStatuses ==
    Exited
    => /\ exitStatus \in {<<0>>, <<1>>}
       /\ exitStatus = <<1>>
             <=> (Unavailable \/ (whisper /\ Len(argv) < 2) \/ raised # <<>>)
       /\ Unavailable => (caught /\ stderr = MissingLine)
       /\ (whisper /\ Len(argv) < 2) => (raised = <<>> /\ stderr = UsageLine)
       /\ (raised # <<>> /\ ~Unavailable) => RawErrorOnStderr
       /\ exitStatus = <<0>> => stderr = ""

C5_Witness ==
    /\ Exited
    /\ RaisedAt("load_model")
    /\ exitStatus = <<1>>

(* C6: every call of load_model passes the label 'base', and the model    *)
(* bound is the one of that label, whatever the arguments.                *)
C6_FixedModelLabel ==
    /\ \A i \in 1..Len(calls) :
          calls[i].fn = "load_model" => calls[i].arg = "base"
    /\ model # <<>> => model = <<"base">>

C6_Witness ==
    /\ Invoked("load_model")
    /\ model # <<>>
    /\ Len(argv) = 3
    /\ argv[2] # argv[3]

(* C7: standard output is empty unless transcribe has returned normally.  *)
C7_NoEarlyStdout ==
    stdout # "" => (Has(returned, "transcribe") /\ result # <<>>)

C7_Witness ==
    /\ stdout # ""
    /\ Has(returned, "transcribe")

(* C8: once load_model has raised, the run has ended with a non-zero      *)
(* status, the exception uncaught and on standard error, transcribe never *)
(* called and standard output empty.                                      *)
C8_LoadErrorPropagates ==
    RaisedAt("load_model")
    => /\ NonZeroExit
       /\ RawErrorOnStderr
       /\ ~Invoked("transcribe")
       /\ stdout = ""

C8_Witness ==
    /\ RaisedAt("load_model")
    /\ raised[1].err = "MemoryError"
    /\ Exited
    /\ Len(argv) >= 2

(* C9: the library calls of a run are a prefix of load_model, transcribe, *)
(* each made at most once and only after both checks passed; transcribe   *)
(* is called only after load_model returned, the text is printed only     *)
(* after transcribe returned, and a run that ended in a guard made no     *)
(* library call.                                                          *)
C9_LinearSequence ==
    /\ IsPrefix([i \in 1..Len(calls) |-> calls[i].fn],
                <<"load_model", "transcribe">>)
    /\ IsPrefix(returned, <<"load_model", "transcribe">>)
    /\ Len(returned) <= Len(calls)
    /\ Len(calls) = 2 => Len(returned) >= 1
    /\ calls # <<>> => (whisper /\ Len(argv) >= 2)
    /\ stdout # "" => Len(returned) = 2
    /\ (Exited /\ (Unavailable \/ (whisper /\ Len(argv) < 2))) => calls = <<>>

C9_Witness ==
    /\ Exited
    /\ Len(calls) = 2
    /\ returned = <<"load_model", "transcribe">>
    /\ stdout # ""

(* C10: transcribe is called with the first argument as given, the empty  *)
(* string included; no other argument is ever read, and a run with more   *)
(* arguments is not rejected as a usage error.                            *)
C10_FirstArgumentOnly ==
    /\ \A i \in 1..Len(calls) :
          calls[i].fn = "transcribe" => calls[i].arg = argv[2]
    /\ argvRead \subseteq {2}
    /\ (whisper /\ Len(argv) >= 2) => stderr # UsageLine
    /\ (whisper /\ Len(argv) >= 3 /\ pc \notin {"argcheck", "load"})
          => Invoked("load_model")

C10_Witness ==
    /\ Invoked("transcribe")
    /\ Len(argv) = 3
    /\ argv[2] = ""
    /\ argv[3] = "b.mp3"
    /\ calls[2].arg = ""

============================================================================
